---------------------------- MODULE Spec2Model ----------------------------
(***************************************************************************)
(* A model of gmaps-image (src/lib.py): the Web-Mercator coordinate math,  *)
(* the zoom solver, the squarifier, the "secure" pixel -> latlon inverse,  *)
(* the tile planner / compositor of construct_image, and get_image.        *)
(*                                                                         *)
(* Five machines share the module, one specification each:                 *)
(*   SpecSquarify  squarify_coordinates                                    *)
(*   SpecZoom      derive_zoom / compute_gsd                               *)
(*   SpecSecure    pixelcoord_to_latlon_secure                             *)
(*   SpecImage     construct_image                                         *)
(*   SpecGetImage  get_image                                               *)
(* A specification leaves the variables of the other machines idle.        *)
(***************************************************************************)
EXTENDS Integers, Sequences, FiniteSets

VARIABLES
    \* squarify_coordinates(p1, p2)
    sq_pc, sq_p1, sq_p2, sq_result,
    \* derive_zoom(lat, scale, goal_gsd, deviation)
    dz_pc, dz_lat, dz_scale, dz_goal_gsd, dz_deviation, dz_result,
    \* pixelcoord_to_latlon_secure(y, x, zoom)
    ps_pc, ps_par, ps_zoom, ps_y, ps_x, ps_lat, ps_lon, ps_y2, ps_x2,
    ps_nlat, ps_nlon,
    \* construct_image(...)
    ci_pc, ci_in, ci_box, ci_plan, ci_images, ci_placed, ci_superimage,
    ci_off, ci_pixelcoordinates,
    \* get_image(...)
    gi_pc, gi_args, gi_box, gi_call

sqVars == <<sq_pc, sq_p1, sq_p2, sq_result>>
dzVars == <<dz_pc, dz_lat, dz_scale, dz_goal_gsd, dz_deviation, dz_result>>
psVars == <<ps_pc, ps_par, ps_zoom, ps_y, ps_x, ps_lat, ps_lon, ps_y2, ps_x2,
            ps_nlat, ps_nlon>>
ciVars == <<ci_pc, ci_in, ci_box, ci_plan, ci_images, ci_placed, ci_superimage,
            ci_off, ci_pixelcoordinates>>
giVars == <<gi_pc, gi_args, gi_box, gi_call>>
vars == <<sqVars, dzVars, psVars, ciVars, giVars>>

(***************************************************************************)
(* Bounds of the model.                                                    *)
(***************************************************************************)
\* squarify inputs range over -MaxCoord..MaxCoord on both axes
MaxCoord == 2
\* goal_gsd ranges over 1..MaxGoal length units, deviation over 0..MaxDeviation
MaxGoal == 4
MaxDeviation == 6
\* lengths are measured in the unit u = earth_circumference / (256 * 2^GsdUnitZoom):
\* the ground sampling distance at the equator, zoom GsdUnitZoom, scale 1, is 1 u
GsdUnitZoom == 6

(***************************************************************************)
(* Arithmetic helpers.                                                     *)
(***************************************************************************)
Min(a, b) == IF a <= b THEN a ELSE b
Max(a, b) == IF a >= b THEN a ELSE b
Abs(a) == IF a < 0 THEN -a ELSE a

RECURSIVE Pow2(_)
\* pow(2, n) for an integer n >= 0
Pow2(n) == IF n <= 0 THEN 1 ELSE 2 * Pow2(n - 1)

(***************************************************************************)
(* squarify_coordinates, src/lib.py:214-231.                               *)
(* floor(0.5*diff) and ceil(0.5*diff) of a positive integer diff.          *)
(***************************************************************************)
floor_half(diff) == diff \div 2
ceil_half(diff) == (diff + 1) \div 2

\* the slip of using floor on both sides
squarify_coordinates_floor_both(p1, p2) ==
    LET y1 == p1[1]
        x1 == p1[2]
        y2 == p2[1]
        x2 == p2[2]
        w == x2 - x1
        h == y2 - y1
        xa == IF h > w THEN x1 - floor_half(h - w) ELSE x1
        xb == IF h > w THEN x2 + floor_half(h - w) ELSE x2
        ya == IF w > h THEN y1 - floor_half(w - h) ELSE y1
        yb == IF w > h THEN y2 + floor_half(w - h) ELSE y2
    IN  << <<ya, xa>>, <<yb, xb>> >>

squarify_coordinates(p1, p2) ==
    LET y1 == p1[1]
        x1 == p1[2]
        y2 == p2[1]
        x2 == p2[2]
        w == x2 - x1
        h == y2 - y1
        \* if h > w: widen x (w and h are not recomputed afterwards)
        xa == IF h > w THEN x1 - floor_half(h - w) ELSE x1
        xb == IF h > w THEN x2 + ceil_half(h - w) ELSE x2
        \* if w > h: widen y
        ya == IF w > h THEN y1 - floor_half(w - h) ELSE y1
        yb == IF w > h THEN y2 + ceil_half(w - h) ELSE y2
    IN  << <<ya, xa>>, <<yb, xb>> >>

SqCoords == (-MaxCoord)..MaxCoord
SqPoints == SqCoords \X SqCoords

SqIdle ==
    /\ sq_pc = "idle"
    /\ sq_p1 = <<0, 0>>
    /\ sq_p2 = <<0, 0>>
    /\ sq_result = <<>>

SqInit ==
    /\ sq_pc = "call"
    /\ sq_p1 \in SqPoints
    /\ sq_p2 \in SqPoints
    /\ sq_result = <<>>

Squarify ==
    /\ sq_pc = "call"
    /\ sq_result' = squarify_coordinates(sq_p1, sq_p2)
    /\ sq_pc' = "done"
    /\ UNCHANGED <<sq_p1, sq_p2>>
    /\ UNCHANGED <<dzVars, psVars, ciVars, giVars>>

(***************************************************************************)
(* compute_gsd and derive_zoom, src/lib.py:177-208.                        *)
(*                                                                         *)
(* Real numbers are exact rationals <<numerator, denominator>> with a      *)
(* positive denominator.  A latitude is one of three parallels, named by   *)
(* its index, whose secant is rational:                                    *)
(*     1: 0 deg (sec = 1)   2: 48.19 deg (sec = 3/2)   3: 60 deg (sec = 2) *)
(* log(q, 2) is the real logarithm: floor and ceil of it are computed      *)
(* exactly by comparing q with powers of two.                              *)
(***************************************************************************)
Latitudes == {1, 2, 3}
\* sec(deg_to_rad(lat)) as a rational
sec_lat(lat) == CASE lat = 1 -> <<1, 1>>
                  [] lat = 2 -> <<3, 2>>
                  [] lat = 3 -> <<2, 1>>

\* earth_circumference in the unit u
earth_circumference == 256 * Pow2(GsdUnitZoom)

\* pow(2, zoom) as a rational, for any integer zoom
pow2_rat(zoom) == IF zoom >= 0 THEN <<Pow2(zoom), 1>> ELSE <<1, Pow2(-zoom)>>

\* a/b <= c/d for positive denominators
rat_le(p, q) == p[1] * q[2] <= q[1] * p[2]

\* w / (256 * pow(2, zoom) * k * scale)
compute_gsd(lat, zoom, scale) ==
    LET k == sec_lat(lat)
        w == earth_circumference
        p == pow2_rat(zoom)
    IN  <<w * p[2] * k[2], 256 * p[1] * k[1] * scale>>

\* the integers among which floor(log2 q) and ceil(log2 q) are searched
ZoomSearch == (-(GsdUnitZoom + 4))..(GsdUnitZoom + 4)

\* floor(log(q, 2)): the largest z with 2^z <= q
floor_log2(q) ==
    CHOOSE z \in ZoomSearch :
        /\ rat_le(pow2_rat(z), q)
        /\ ~ rat_le(pow2_rat(z + 1), q)

\* ceil(log(q, 2)): the smallest z with q <= 2^z
ceil_log2(q) ==
    CHOOSE z \in ZoomSearch :
        /\ rat_le(q, pow2_rat(z))
        /\ ~ rat_le(q, pow2_rat(z - 1))

\* the three candidates zoom0, zoom1, zoom2 of derive_zoom
zoom_candidates(lat, scale, goal_gsd) ==
    LET k == sec_lat(lat)
        w == earth_circumference
        \* w / (256 * goal_gsd * k * scale)
        q == <<w * k[2], 256 * goal_gsd * k[1] * scale>>
        zoom1 == floor_log2(q)
        zoom2 == ceil_log2(q)
        zoom0 == zoom1 - 1
    IN  <<zoom0, zoom1, zoom2>>

\* gsd <= goal_gsd + deviation
gsd_ok(lat, zoom, scale, goal_gsd, deviation) ==
    rat_le(compute_gsd(lat, zoom, scale), <<goal_gsd + deviation, 1>>)

\* the slip of trying the candidates from the finest to the coarsest
derive_zoom_finest_first(lat, scale, goal_gsd, deviation) ==
    LET c == zoom_candidates(lat, scale, goal_gsd)
    IN  IF gsd_ok(lat, c[3], scale, goal_gsd, deviation)
        THEN [raised |-> "", zoom |-> c[3]]
        ELSE IF gsd_ok(lat, c[2], scale, goal_gsd, deviation)
        THEN [raised |-> "", zoom |-> c[2]]
        ELSE [raised |-> "", zoom |-> c[1]]

\* the result: [raised |-> "" or "AssertionError", zoom |-> the zoom returned]
derive_zoom(lat, scale, goal_gsd, deviation) ==
    LET c == zoom_candidates(lat, scale, goal_gsd)
    IN  IF gsd_ok(lat, c[1], scale, goal_gsd, deviation)
        THEN [raised |-> "", zoom |-> c[1]]
        ELSE IF gsd_ok(lat, c[2], scale, goal_gsd, deviation)
        THEN [raised |-> "", zoom |-> c[2]]
        ELSE IF gsd_ok(lat, c[3], scale, goal_gsd, deviation)
        THEN [raised |-> "", zoom |-> c[3]]
        ELSE [raised |-> "AssertionError", zoom |-> c[3]]

Scales == {1, 2}

DzIdle ==
    /\ dz_pc = "idle"
    /\ dz_lat = 1
    /\ dz_scale = 1
    /\ dz_goal_gsd = 1
    /\ dz_deviation = 0
    /\ dz_result = [raised |-> "", zoom |-> 0]

DzInit ==
    /\ dz_pc = "call"
    /\ dz_lat \in Latitudes
    /\ dz_scale \in Scales
    /\ dz_goal_gsd \in 1..MaxGoal
    /\ dz_deviation \in 0..MaxDeviation
    /\ dz_result = [raised |-> "", zoom |-> 0]

DeriveZoom ==
    /\ dz_pc = "call"
    /\ dz_result' = derive_zoom(dz_lat, dz_scale, dz_goal_gsd, dz_deviation)
    /\ dz_pc' = IF dz_result'.raised = "" THEN "returned" ELSE "raised"
    /\ UNCHANGED <<dz_lat, dz_scale, dz_goal_gsd, dz_deviation>>
    /\ UNCHANGED <<sqVars, psVars, ciVars, giVars>>


(***************************************************************************)
(* The projection in fixed point, src/lib.py:115-134.                      *)
(*                                                                         *)
(* Degrees are counted on a grid of GridPerNudge points per 1e-6 degree    *)
(* (the step of the secure inverse).  One full turn is MicroDegreesAround  *)
(* steps of 1e-6 degree, the raster is 256 * 2^zoom pixels wide, so one    *)
(* pixel of zoom 0 is MicroDegreesAround / 256 = 1406250 steps wide and a  *)
(* pixel of zoom z is UnitsPerPixel0 / 2^z grid points wide.               *)
(*                                                                         *)
(*   lon  grid points east of the antimeridian (-180 degrees)              *)
(*   lat  grid points north of a reference parallel `par`; the rows of a   *)
(*        window below the parallel are counted from the row boundary on   *)
(*        it, and inside the window the Mercator stretch d(gd_inv)/d(lat)  *)
(*        is its first-order value sec(par)                                *)
(***************************************************************************)
GridPerNudge == 16
MicroDegreesAround == 360000000
TilePixels == 256
UnitsPerPixel0 == (MicroDegreesAround \div TilePixels) * GridPerNudge

\* zooms 0..MaxZoom, pixels 1..MaxPixel, at most MaxNudges nudges per loop
MaxZoom == 22
MaxPixel == 2
MaxNudges == 3

\* int(x * pixelcount) of the uniform x of lon: truncation of a position
\* inside the raster, floor where a nudge has left it
lon_to_pixel(lon, zoom) == (lon * Pow2(zoom)) \div UnitsPerPixel0

\* int(y * pixelcount) of the uniform y of lat, y growing southwards
lat_to_pixel(lat, zoom, par) ==
    LET k == sec_lat(par)
    IN  ((-lat) * k[1] * Pow2(zoom)) \div (UnitsPerPixel0 * k[2])

\* latlon_to_pixelcoord: the row depends on lat alone, the column on lon alone
latlon_to_pixelcoord(lat, lon, zoom, par) ==
    <<lat_to_pixel(lat, zoom, par), lon_to_pixel(lon, zoom)>>

\* ceil(a / b) for b > 0
ceil_div(a, b) == -((-a) \div b)

\* pixelcoord_to_latlon: the upper-left corner of pixel (y, x).  The floating
\* point result is either inside the pixel or a hair north / west of its
\* edge: ey, ex in {0, 1} are the grid points by which it falls short.
pixelcoord_to_latlon(y, x, zoom, par, ey, ex) ==
    LET k == sec_lat(par)
        south == ceil_div(y * UnitsPerPixel0 * k[2], k[1] * Pow2(zoom))
        east == ceil_div(x * UnitsPerPixel0, Pow2(zoom))
    IN  <<-(south - ey), east - ex>>

(***************************************************************************)
(* pixelcoord_to_latlon_secure, src/lib.py:146-173.                        *)
(***************************************************************************)
\* while y2 != y, with only one direction repaired
lat_loop_guard_one_sided == ps_y2 > ps_y

\* while y2 != y
lat_loop_guard == ps_y2 # ps_y

\* while x2 != x
lon_loop_guard == ps_x2 # ps_x

PsIdle ==
    /\ ps_pc = "idle"
    /\ ps_par = 1
    /\ ps_zoom = 0
    /\ ps_y = 0
    /\ ps_x = 0
    /\ ps_lat = 0
    /\ ps_lon = 0
    /\ ps_y2 = 0
    /\ ps_x2 = 0
    /\ ps_nlat = 0
    /\ ps_nlon = 0

PsInit ==
    /\ ps_pc = "call"
    /\ ps_par \in Latitudes
    /\ ps_zoom \in 0..MaxZoom
    /\ ps_y \in 1..MaxPixel
    /\ ps_x \in 1..MaxPixel
    /\ ps_lat = 0
    /\ ps_lon = 0
    /\ ps_y2 = 0
    /\ ps_x2 = 0
    /\ ps_nlat = 0
    /\ ps_nlon = 0

\* lines 148-149: the naive inverse and its forward projection
NaiveInverse ==
    /\ ps_pc = "call"
    /\ \E ey \in {0, 1}, ex \in {0, 1} :
        LET g == pixelcoord_to_latlon(ps_y, ps_x, ps_zoom, ps_par, ey, ex)
            p == latlon_to_pixelcoord(g[1], g[2], ps_zoom, ps_par)
        IN  /\ ps_lat' = g[1]
            /\ ps_lon' = g[2]
            /\ ps_y2' = p[1]
            /\ ps_x2' = p[2]
    /\ ps_pc' = "latloop"
    /\ UNCHANGED <<ps_par, ps_zoom, ps_y, ps_x, ps_nlat, ps_nlon>>
    /\ UNCHANGED <<sqVars, dzVars, ciVars, giVars>>

\* line 151: the latitude loop is left
LatLoopExit ==
    /\ ps_pc = "latloop"
    /\ ~ lat_loop_guard
    /\ ps_pc' = "lonloop"
    /\ UNCHANGED <<ps_par, ps_zoom, ps_y, ps_x, ps_lat, ps_lon, ps_y2, ps_x2,
                   ps_nlat, ps_nlon>>
    /\ UNCHANGED <<sqVars, dzVars, ciVars, giVars>>

\* line 155: assert(abs(y2 - y) == 1) fails
LatAssertFails ==
    /\ ps_pc = "latloop"
    /\ lat_loop_guard
    /\ Abs(ps_y2 - ps_y) # 1
    /\ ps_pc' = "AssertionError"
    /\ UNCHANGED <<ps_par, ps_zoom, ps_y, ps_x, ps_lat, ps_lon, ps_y2, ps_x2,
                   ps_nlat, ps_nlon>>
    /\ UNCHANGED <<sqVars, dzVars, ciVars, giVars>>

\* lines 156-160: one nudge of the latitude by 1e-6 degree
LatNudge ==
    /\ ps_pc = "latloop"
    /\ lat_loop_guard
    /\ Abs(ps_y2 - ps_y) = 1
    /\ ps_nlat < MaxNudges
    /\ ps_lat' = IF ps_y2 < ps_y THEN ps_lat - GridPerNudge
                                 ELSE ps_lat + GridPerNudge
    /\ LET p == latlon_to_pixelcoord(ps_lat', ps_lon, ps_zoom, ps_par)
       IN  /\ ps_y2' = p[1]
           /\ ps_x2' = p[2]
    /\ ps_nlat' = ps_nlat + 1
    /\ UNCHANGED <<ps_pc, ps_par, ps_zoom, ps_y, ps_x, ps_lon, ps_nlon>>
    /\ UNCHANGED <<sqVars, dzVars, ciVars, giVars>>

\* line 162 and 173: the longitude loop is left and (lat, lon) returned
LonLoopExit ==
    /\ ps_pc = "lonloop"
    /\ ~ lon_loop_guard
    /\ ps_pc' = "done"
    /\ UNCHANGED <<ps_par, ps_zoom, ps_y, ps_x, ps_lat, ps_lon, ps_y2, ps_x2,
                   ps_nlat, ps_nlon>>
    /\ UNCHANGED <<sqVars, dzVars, ciVars, giVars>>

\* line 166: assert(abs(x2 - x) == 1) fails
LonAssertFails ==
    /\ ps_pc = "lonloop"
    /\ lon_loop_guard
    /\ Abs(ps_x2 - ps_x) # 1
    /\ ps_pc' = "AssertionError"
    /\ UNCHANGED <<ps_par, ps_zoom, ps_y, ps_x, ps_lat, ps_lon, ps_y2, ps_x2,
                   ps_nlat, ps_nlon>>
    /\ UNCHANGED <<sqVars, dzVars, ciVars, giVars>>

\* lines 167-171: one nudge of the longitude by 1e-6 degree
LonNudge ==
    /\ ps_pc = "lonloop"
    /\ lon_loop_guard
    /\ Abs(ps_x2 - ps_x) = 1
    /\ ps_nlon < MaxNudges
    /\ ps_lon' = IF ps_x2 < ps_x THEN ps_lon + GridPerNudge
                                 ELSE ps_lon - GridPerNudge
    /\ LET p == latlon_to_pixelcoord(ps_lat, ps_lon', ps_zoom, ps_par)
       IN  /\ ps_y2' = p[1]
           /\ ps_x2' = p[2]
    /\ ps_nlon' = ps_nlon + 1
    /\ UNCHANGED <<ps_pc, ps_par, ps_zoom, ps_y, ps_x, ps_lat, ps_nlat>>
    /\ UNCHANGED <<sqVars, dzVars, ciVars, giVars>>

(***************************************************************************)
(* construct_image, src/lib.py:264-393.                                    *)
(*                                                                         *)
(* A raster is [h, w, y0s, x0s]: h rows and w columns, row a showing the   *)
(* world pixel row (y0s + a) div scale and column b the world pixel column *)
(* (x0s + b) div scale of the zoom requested (each world pixel is scale x  *)
(* scale raster cells).  The machine starts after lines 279-280, with the  *)
(* pixel corners (y1, x1), (y2, x2) of the requested box.                  *)
(***************************************************************************)
max_resolution == 640
margin == 22
\* line 291: tile step size
step == max_resolution - 2 * margin
\* lines 377-378: the modulus of the shape assertions
shape_modulus == 88

\* the corners lie in tile 0 or tile MaxTile; the zoom of the request
MaxTile == 1
ImageZoom == 10

\* a[start : -b] on an axis of n entries, start >= 0, b >= 0: <<first, count>>
\* (numpy clips the bounds; -0 is 0, an empty slice)
py_slice(n, start, b) ==
    LET first == Min(start, n)
        stop == IF b = 0 THEN 0 ELSE Max(n - b, 0)
    IN  <<first, Max(stop - first, 0)>>

\* range(a, b) as a sequence
py_range(a, b) == [i \in 1..Max(b - a, 0) |-> a + i - 1]

RECURSIVE comprehension(_, _)
\* [(j, i) for j in js for i in is]
comprehension(js, is) ==
    IF js = <<>> THEN <<>>
    ELSE [i \in 1..Len(is) |-> <<Head(js), is[i]>>] \o comprehension(Tail(js), is)

\* int((t + 0.5) * step) without the half
tile_to_pixel_corner(t) == t * step

\* line 299: int((t + 0.5) * step), truncation toward zero
tile_to_pixel(t) ==
    LET twice == (2 * t + 1) * step
    IN  IF twice >= 0 THEN twice \div 2 ELSE -((-twice) \div 2)

\* range(t1, t2) for range(t1, t2 + 1)
plan_tiles_exclusive(box) ==
    LET t1 == <<box.y1 \div step, box.x1 \div step>>
        t2 == <<box.y2 \div step, box.x2 \div step>>
        tiles == comprehension(py_range(t1[1], t2[1]), py_range(t1[2], t2[2]))
    IN  [t1 |-> t1, t2 |-> t2, tiles |-> tiles,
         width |-> Len(py_range(t1[2], t2[2])),
         height |-> Len(py_range(t1[1], t2[1])),
         pixelcoords |-> [k \in 1..Len(tiles) |->
                            <<tile_to_pixel(tiles[k][1]), tile_to_pixel(tiles[k][2])>>]]

\* lines 292-300: the tiles to fetch and their centre pixels
plan_tiles(box) ==
    LET t1 == <<box.y1 \div step, box.x1 \div step>>
        t2 == <<box.y2 \div step, box.x2 \div step>>
        tiles == comprehension(py_range(t1[1], t2[1] + 1), py_range(t1[2], t2[2] + 1))
    IN  [t1 |-> t1, t2 |-> t2, tiles |-> tiles,
         width |-> Len(py_range(t1[2], t2[2] + 1)),
         height |-> Len(py_range(t1[1], t2[1] + 1)),
         pixelcoords |-> [k \in 1..Len(tiles) |->
                            <<tile_to_pixel(tiles[k][1]), tile_to_pixel(tiles[k][2])>>]]

\* lines 306-320: the image the maps service returns for a centre pixel, a
\* (scale * max_resolution)-sized square centred on it
read_image(centre, scale) ==
    [h |-> scale * max_resolution, w |-> scale * max_resolution,
     y0s |-> scale * (centre[1] - max_resolution \div 2),
     x0s |-> scale * (centre[2] - max_resolution \div 2)]

\* lines 64-66: image[off:-off, off:-off, :]
cut_logo(image, scale, mrg) ==
    LET off == scale * mrg
        rs == py_slice(image.h, off, off)
        cs == py_slice(image.w, off, off)
    IN  [h |-> rs[2], w |-> cs[2], y0s |-> image.y0s + rs[1], x0s |-> image.x0s + cs[1]]

\* the lower-right offset of the nested subtest: step - (y2 % step) - 1
crop_offsets_subtest(box, scale) ==
    [off1 |-> <<scale * (box.y1 % step), scale * (box.x1 % step)>>,
     off2 |-> <<scale * (step - (box.y2 % step) - 1),
                scale * (step - (box.x2 % step) - 1)>>]

\* lines 348-349: pixel offsets in the upper-left and the lower-right tile
crop_offsets(box, scale) ==
    [off1 |-> <<scale * (box.y1 % step), scale * (box.x1 % step)>>,
     off2 |-> <<scale * (step - (box.y2 % step)), scale * (step - (box.x2 % step))>>]

\* lines 377-378
shape_check(image) ==
    /\ image.h % shape_modulus = 0
    /\ image.w % shape_modulus = 0

\* the smallest number of tiles per axis whose full-tiles composite, at scale 2,
\* passes shape_check
AcceptedGrid ==
    CHOOSE n \in 1..shape_modulus :
        /\ (n * 2 * step) % shape_modulus = 0
        /\ \A m \in 1..(n - 1) : (m * 2 * step) % shape_modulus # 0

\* the pixel coordinates of the corners, per axis: the edges of tile 0 and of
\* tile MaxTile, and one point shape_modulus pixels into tile 0
AxisPoints ==
    {t * step + o : t \in {0, MaxTile}, o \in {0, step - 1}} \cup {shape_modulus}
AxisSpans == {s \in AxisPoints \X AxisPoints : s[1] <= s[2]}
\* the requests: small boxes, and one box spanning AcceptedGrid tiles per axis
Boxes ==
    {[y1 |-> ys[1], x1 |-> xs[1], y2 |-> ys[2], x2 |-> xs[2]] :
        ys \in AxisSpans, xs \in AxisSpans}
    \cup {[y1 |-> 0, x1 |-> 0,
           y2 |-> AcceptedGrid * step - 1, x2 |-> AcceptedGrid * step - 1]}

NoBox == [y1 |-> 0, x1 |-> 0, y2 |-> 0, x2 |-> 0]
NoPlan == [t1 |-> <<0, 0>>, t2 |-> <<0, 0>>, tiles |-> <<>>, width |-> 0,
           height |-> 0, pixelcoords |-> <<>>]
NoRaster == [h |-> 0, w |-> 0, r0 |-> 0, c0 |-> 0]
NoOff == [off1 |-> <<0, 0>>, off2 |-> <<0, 0>>]
NoMap == [h |-> 0, w |-> 0, filled_h |-> 0, filled_w |-> 0, origin |-> <<0, 0>>,
          zoom |-> 0]

CiIdle ==
    /\ ci_pc = "idle"
    /\ ci_in = [box |-> NoBox, zoom |-> 0, scale |-> 1, full_tiles |-> FALSE,
                square |-> FALSE]
    /\ ci_box = NoBox
    /\ ci_plan = NoPlan
    /\ ci_images = <<>>
    /\ ci_placed = <<>>
    /\ ci_superimage = NoRaster
    /\ ci_off = NoOff
    /\ ci_pixelcoordinates = NoMap

CiInit ==
    /\ ci_pc = "call"
    /\ ci_in \in [box : Boxes, zoom : {ImageZoom}, scale : Scales,
                  full_tiles : BOOLEAN, square : BOOLEAN]
    /\ ci_box = NoBox
    /\ ci_plan = NoPlan
    /\ ci_images = <<>>
    /\ ci_placed = <<>>
    /\ ci_superimage = NoRaster
    /\ ci_off = NoOff
    /\ ci_pixelcoordinates = NoMap

\* lines 282-285: the optional squarify of the pixel box
Normalize ==
    /\ ci_pc = "call"
    /\ ci_box' = IF ci_in.square
                 THEN LET b == ci_in.box
                          q == squarify_coordinates(<<b.y1, b.x1>>, <<b.y2, b.x2>>)
                      IN  [y1 |-> q[1][1], x1 |-> q[1][2],
                           y2 |-> q[2][1], x2 |-> q[2][2]]
                 ELSE ci_in.box
    /\ ci_pc' = "plan"
    /\ UNCHANGED <<ci_in, ci_plan, ci_images, ci_placed, ci_superimage, ci_off,
                   ci_pixelcoordinates>>
    /\ UNCHANGED <<sqVars, dzVars, psVars, giVars>>

\* lines 291-301
PlanTiles ==
    /\ ci_pc = "plan"
    /\ ci_plan' = plan_tiles(ci_box)
    /\ ci_pc' = "fetch"
    /\ UNCHANGED <<ci_in, ci_box, ci_images, ci_placed, ci_superimage, ci_off,
                   ci_pixelcoordinates>>
    /\ UNCHANGED <<sqVars, dzVars, psVars, giVars>>

\* line 315: assert fetch_url(...) fails for a tile that is not cached
FetchFails ==
    /\ ci_pc = "fetch"
    /\ Len(ci_plan.tiles) > 0
    /\ ci_pc' = "FetchAssertionError"
    /\ UNCHANGED <<ci_in, ci_box, ci_plan, ci_images, ci_placed, ci_superimage,
                   ci_off, ci_pixelcoordinates>>
    /\ UNCHANGED <<sqVars, dzVars, psVars, giVars>>

\* lines 306-324: every tile is fetched, read and cut; the composite is allocated
ReadTiles ==
    /\ ci_pc = "fetch"
    /\ ci_images' = [k \in 1..Len(ci_plan.tiles) |->
                        cut_logo(read_image(ci_plan.pixelcoords[k], ci_in.scale),
                                 ci_in.scale, margin)]
    /\ LET size == ci_in.scale * step
       IN  ci_superimage' = [h |-> ci_plan.height * size, w |-> ci_plan.width * size,
                             r0 |-> 0, c0 |-> 0]
    /\ ci_pc' = "stitch"
    /\ UNCHANGED <<ci_in, ci_box, ci_plan, ci_placed, ci_off, ci_pixelcoordinates>>
    /\ UNCHANGED <<sqVars, dzVars, psVars, giVars>>

\* lines 326-328: one iteration of the placement loops, tile (y, x) of the grid
PlaceTile ==
    /\ ci_pc = "stitch"
    /\ Len(ci_placed) < ci_plan.height * ci_plan.width
    /\ LET m == ci_in.scale * step
           y == Len(ci_placed) \div ci_plan.width
           x == Len(ci_placed) % ci_plan.width
           img == y * ci_plan.width + x + 1
           rs == <<Min(y * m, ci_superimage.h), Min((y + 1) * m, ci_superimage.h)>>
           cs == <<Min(x * m, ci_superimage.w), Min((x + 1) * m, ci_superimage.w)>>
           fits == /\ ci_images[img].h = rs[2] - rs[1]
                   /\ ci_images[img].w = cs[2] - cs[1]
       IN  IF fits
           THEN /\ ci_placed' = Append(ci_placed, [r0 |-> rs[1], r1 |-> rs[2],
                                                   c0 |-> cs[1], c1 |-> cs[2],
                                                   img |-> img])
                /\ ci_pc' = "stitch"
           ELSE /\ ci_placed' = ci_placed
                /\ ci_pc' = "ValueError"
    /\ UNCHANGED <<ci_in, ci_box, ci_plan, ci_images, ci_superimage, ci_off,
                   ci_pixelcoordinates>>
    /\ UNCHANGED <<sqVars, dzVars, psVars, giVars>>

\* lines 331-350: the composite is cut to the requested box
CropToBox ==
    /\ ci_pc = "stitch"
    /\ Len(ci_placed) = ci_plan.height * ci_plan.width
    /\ ~ ci_in.full_tiles
    /\ ci_off' = crop_offsets(ci_box, ci_in.scale)
    /\ LET rs == py_slice(ci_superimage.h, ci_off'.off1[1], ci_off'.off2[1])
           cs == py_slice(ci_superimage.w, ci_off'.off1[2], ci_off'.off2[2])
       IN  ci_superimage' = [h |-> rs[2], w |-> cs[2],
                             r0 |-> ci_superimage.r0 + rs[1],
                             c0 |-> ci_superimage.c0 + cs[1]]
    /\ ci_pc' = "check"
    /\ UNCHANGED <<ci_in, ci_box, ci_plan, ci_images, ci_placed, ci_pixelcoordinates>>
    /\ UNCHANGED <<sqVars, dzVars, psVars, giVars>>

\* line 331: full_tiles, the composite is kept whole
KeepFullTiles ==
    /\ ci_pc = "stitch"
    /\ Len(ci_placed) = ci_plan.height * ci_plan.width
    /\ ci_in.full_tiles
    /\ ci_pc' = "check"
    /\ UNCHANGED <<ci_in, ci_box, ci_plan, ci_images, ci_placed, ci_superimage,
                   ci_off, ci_pixelcoordinates>>
    /\ UNCHANGED <<sqVars, dzVars, psVars, giVars>>

\* line 373: the coordinate map is allocated with the shape of the composite
allocate_map ==
    [h |-> ci_superimage.h, w |-> ci_superimage.w, filled_h |-> 0, filled_w |-> 0,
     origin |-> <<0, 0>>, zoom |-> 0]

\* lines 373-385: the shape assertions hold
ShapeCheckPasses ==
    /\ ci_pc = "check"
    /\ shape_check(ci_superimage)
    /\ ci_pixelcoordinates' = allocate_map
    /\ ci_pc' = "fill"
    /\ UNCHANGED <<ci_in, ci_box, ci_plan, ci_images, ci_placed, ci_superimage, ci_off>>
    /\ UNCHANGED <<sqVars, dzVars, psVars, giVars>>

\* lines 377-378: a shape assertion fails
ShapeCheckFails ==
    /\ ci_pc = "check"
    /\ ~ shape_check(ci_superimage)
    /\ ci_pixelcoordinates' = allocate_map
    /\ ci_pc' = "ShapeAssertionError"
    /\ UNCHANGED <<ci_in, ci_box, ci_plan, ci_images, ci_placed, ci_superimage, ci_off>>
    /\ UNCHANGED <<sqVars, dzVars, psVars, giVars>>

\* lines 389-393: entry (y, x), y in range(scale * (y2 - y1)), x in
\* range(scale * (x2 - x1)), is assigned pixelcoord_to_latlon_secure(origin[1] + y,
\* origin[2] + x, zoom); the entries assigned are those of filled_h x filled_w
FillCoordinates ==
    /\ ci_pc = "fill"
    /\ LET scale == ci_in.scale
           fh == Len(py_range(0, scale * (ci_box.y2 - ci_box.y1)))
           fw == Len(py_range(0, scale * (ci_box.x2 - ci_box.x1)))
           inside == fh * fw = 0
                     \/ (fh <= ci_pixelcoordinates.h /\ fw <= ci_pixelcoordinates.w)
       IN  /\ ci_pixelcoordinates' =
                [ci_pixelcoordinates EXCEPT
                    !.filled_h = IF inside THEN fh ELSE 0,
                    !.filled_w = IF inside THEN fw ELSE 0,
                    !.origin = <<scale * ci_box.y1, scale * ci_box.x1>>,
                    !.zoom = ci_in.zoom + (IF scale = 2 THEN 1 ELSE 0)]
           /\ ci_pc' = IF inside THEN "done" ELSE "IndexError"
    /\ UNCHANGED <<ci_in, ci_box, ci_plan, ci_images, ci_placed, ci_superimage, ci_off>>
    /\ UNCHANGED <<sqVars, dzVars, psVars, giVars>>

(***************************************************************************)
(* get_image, src/lib.py:404-437.                                          *)
(*                                                                         *)
(* An optional argument is <<>> (None) or <<value>>.  Pixel coordinates    *)
(* are a pair of [x, y] records, latlon coordinates a pair of [lat, lon]   *)
(* records (in grid points, as in the projection above).                   *)
(***************************************************************************)
None == <<>>
PixelDicts == [x : 1..MaxPixel, y : 1..MaxPixel]
LatLonDicts == [lat : {-GridPerNudge, GridPerNudge}, lon : {0, GridPerNudge}]

\* lines 423-424: the object the latlon branch subscripts
latlon_branch_operand == gi_args.pixel_coordinates

GiIdle ==
    /\ gi_pc = "idle"
    /\ gi_args = [scale |-> None, zoom |-> None, pixel_coordinates |-> None,
                  latlon_coordinates |-> None]
    /\ gi_box = None
    /\ gi_call = None

GiInit ==
    /\ gi_pc = "call"
    /\ gi_args \in [scale : {None} \cup {<<sc>> : sc \in Scales},
                    zoom : {None, <<ImageZoom>>},
                    pixel_coordinates :
                        {None} \cup {<<d>> : d \in PixelDicts \X PixelDicts},
                    latlon_coordinates :
                        {None} \cup {<<d>> : d \in LatLonDicts \X LatLonDicts}]
    /\ gi_box = None
    /\ gi_call = None

\* lines 406-407: assert zoom != None, assert scale != None
ArgumentAssertFails ==
    /\ gi_pc = "call"
    /\ (gi_args.zoom = None \/ gi_args.scale = None)
    /\ gi_pc' = "AssertionError"
    /\ UNCHANGED <<gi_args, gi_box, gi_call>>
    /\ UNCHANGED <<sqVars, dzVars, psVars, ciVars>>

\* lines 414-420: the box of the pixel coordinates
PixelBranch ==
    /\ gi_pc = "call"
    /\ gi_args.zoom # None /\ gi_args.scale # None
    /\ gi_args.pixel_coordinates # None
    /\ \E ey0 \in {0, 1}, ex0 \in {0, 1}, ey1 \in {0, 1}, ex1 \in {0, 1} :
        LET pcs == gi_args.pixel_coordinates[1]
            zoom == gi_args.zoom[1]
            x0 == Min(pcs[1].x, pcs[2].x)
            x1 == Max(pcs[1].x, pcs[2].x)
            y0 == Min(pcs[1].y, pcs[2].y)
            y1 == Max(pcs[1].y, pcs[2].y)
            nw == pixelcoord_to_latlon(y0, x0, zoom, 1, ey0, ex0)
            se == pixelcoord_to_latlon(y1, x1, zoom, 1, ey1, ex1)
        IN  gi_box' = <<[north |-> nw[1], west |-> nw[2],
                         south |-> se[1], east |-> se[2]]>>
    /\ gi_pc' = "read_api_key"
    /\ UNCHANGED <<gi_args, gi_call>>
    /\ UNCHANGED <<sqVars, dzVars, psVars, ciVars>>

\* lines 422-426: the box of the latlon coordinates; subscripting None raises
LatLonBranch ==
    /\ gi_pc = "call"
    /\ gi_args.zoom # None /\ gi_args.scale # None
    /\ gi_args.pixel_coordinates = None
    /\ gi_args.latlon_coordinates # None
    /\ IF latlon_branch_operand = None
       THEN /\ gi_pc' = "TypeError"
            /\ gi_box' = gi_box
       ELSE LET lls == latlon_branch_operand[1]
            IN  /\ gi_box' = <<[north |-> Max(lls[1].lat, lls[2].lat),
                                west |-> Min(lls[1].lon, lls[2].lon),
                                south |-> Min(lls[1].lat, lls[2].lat),
                                east |-> Max(lls[1].lon, lls[2].lon)]>>
                /\ gi_pc' = "read_api_key"
    /\ UNCHANGED <<gi_args, gi_call>>
    /\ UNCHANGED <<sqVars, dzVars, psVars, ciVars>>

\* lines 428-429: neither argument given
NeitherBranch ==
    /\ gi_pc = "call"
    /\ gi_args.zoom # None /\ gi_args.scale # None
    /\ gi_args.pixel_coordinates = None
    /\ gi_args.latlon_coordinates = None
    /\ gi_pc' = "Exception"
    /\ UNCHANGED <<gi_args, gi_box, gi_call>>
    /\ UNCHANGED <<sqVars, dzVars, psVars, ciVars>>

\* lines 436-437: the key is read and construct_image is called with the box
CallConstructImage ==
    /\ gi_pc = "read_api_key"
    /\ gi_call' = <<[north |-> gi_box[1].north, east |-> gi_box[1].east,
                     south |-> gi_box[1].south, west |-> gi_box[1].west,
                     zoom |-> gi_args.zoom[1], scale |-> gi_args.scale[1]]>>
    /\ gi_pc' = "construct_image"
    /\ UNCHANGED <<gi_args, gi_box>>
    /\ UNCHANGED <<sqVars, dzVars, psVars, ciVars>>

\* lines 397-400: the key file cannot be opened
ReadApiKeyFails ==
    /\ gi_pc = "read_api_key"
    /\ gi_pc' = "OSError"
    /\ UNCHANGED <<gi_args, gi_box, gi_call>>
    /\ UNCHANGED <<sqVars, dzVars, psVars, ciVars>>

(***************************************************************************)
(* The specifications.                                                     *)
(***************************************************************************)
InitSquarify == SqInit /\ DzIdle /\ PsIdle /\ CiIdle /\ GiIdle
NextSquarify == Squarify
SpecSquarify == InitSquarify /\ [][NextSquarify]_vars

InitZoom == SqIdle /\ DzInit /\ PsIdle /\ CiIdle /\ GiIdle
NextZoom == DeriveZoom
SpecZoom == InitZoom /\ [][NextZoom]_vars

InitSecure == SqIdle /\ DzIdle /\ PsInit /\ CiIdle /\ GiIdle
NextSecure ==
    \/ NaiveInverse
    \/ LatLoopExit
    \/ LatAssertFails
    \/ LatNudge
    \/ LonLoopExit
    \/ LonAssertFails
    \/ LonNudge
SpecSecure == InitSecure /\ [][NextSecure]_vars

InitImage == SqIdle /\ DzIdle /\ PsIdle /\ CiInit /\ GiIdle
NextImage ==
    \/ Normalize
    \/ PlanTiles
    \/ FetchFails
    \/ ReadTiles
    \/ PlaceTile
    \/ CropToBox
    \/ KeepFullTiles
    \/ ShapeCheckPasses
    \/ ShapeCheckFails
    \/ FillCoordinates
SpecImage == InitImage /\ [][NextImage]_vars

InitGetImage == SqIdle /\ DzIdle /\ PsIdle /\ CiIdle /\ GiInit
NextGetImage ==
    \/ ArgumentAssertFails
    \/ PixelBranch
    \/ LatLonBranch
    \/ NeitherBranch
    \/ CallConstructImage
    \/ ReadApiKeyFails
SpecGetImage == InitGetImage /\ [][NextGetImage]_vars

(***************************************************************************)
(* Properties.                                                             *)
(***************************************************************************)

\* C1: squarify_coordinates returns a rectangle whose width equals its height
\* and which contains the original rectangle; neither axis shrinks.
SquarifyIsSquareAndContains ==
    sq_pc = "done" =>
        LET y1 == sq_p1[1]
            x1 == sq_p1[2]
            y2 == sq_p2[1]
            x2 == sq_p2[2]
            y1n == sq_result[1][1]
            x1n == sq_result[1][2]
            y2n == sq_result[2][1]
            x2n == sq_result[2][2]
        IN  /\ x2n - x1n = y2n - y1n
            /\ y1n <= y1 /\ x1n <= x1 /\ y2n >= y2 /\ x2n >= x2
            /\ x2n - x1n >= x2 - x1
            /\ y2n - y1n >= y2 - y1

\* C1 witness: a rectangle higher than wide by an odd amount has been widened
SquarifyOddWidened ==
    /\ sq_pc = "done"
    /\ (sq_p2[1] - sq_p1[1]) - (sq_p2[2] - sq_p1[2]) = 3
    /\ sq_result # <<sq_p1, sq_p2>>

\* C2 as claimed: the zoom returned meets the bound and the next coarser zoom
\* does not (the minimum over all integers).
DeriveZoomIsGlobalMinimum ==
    dz_pc = "returned" =>
        /\ gsd_ok(dz_lat, dz_result.zoom, dz_scale, dz_goal_gsd, dz_deviation)
        /\ ~ gsd_ok(dz_lat, dz_result.zoom - 1, dz_scale, dz_goal_gsd, dz_deviation)

\* C2 amended: derive_zoom returns, and returns the smallest of its three
\* candidates floor(z)-1, floor(z), ceil(z) that meets gsd <= goal_gsd + deviation;
\* that is the minimum over all integers whenever deviation < 3 * goal_gsd.
DeriveZoomIsMinimalCandidate ==
    dz_pc # "call" =>
        LET c == zoom_candidates(dz_lat, dz_scale, dz_goal_gsd)
            ok(z) == gsd_ok(dz_lat, z, dz_scale, dz_goal_gsd, dz_deviation)
            r == dz_result.zoom
        IN  /\ dz_pc = "returned"
            /\ r \in {c[1], c[2], c[3]}
            /\ ok(r)
            /\ \A i \in 1..3 : ok(c[i]) => r <= c[i]
            /\ dz_deviation < 3 * dz_goal_gsd => ~ ok(r - 1)

\* C2 witness: with a slack below 3 * goal_gsd the coarsest candidate is returned
DeriveZoomUsesSlack ==
    /\ dz_pc = "returned"
    /\ dz_deviation > 0
    /\ dz_deviation < 3 * dz_goal_gsd
    /\ dz_result.zoom = zoom_candidates(dz_lat, dz_scale, dz_goal_gsd)[1]

\* C3: whenever pixelcoord_to_latlon_secure returns (lat, lon),
\* latlon_to_pixelcoord(lat, lon, zoom) is (y, x) on both axes; while the
\* longitude loop runs the row matched by the latitude loop stays matched.
SecureRoundTripExact ==
    /\ ps_pc = "done" =>
          latlon_to_pixelcoord(ps_lat, ps_lon, ps_zoom, ps_par) = <<ps_y, ps_x>>
    /\ ps_pc \in {"lonloop", "done"} =>
          /\ ps_y2 = ps_y
          /\ latlon_to_pixelcoord(ps_lat, ps_lon, ps_zoom, ps_par)[1] = ps_y

\* C3 witness: a return after both loops have nudged
SecureReturnsAfterBothNudged ==
    /\ ps_pc = "done"
    /\ ps_nlat > 0
    /\ ps_nlon > 0

\* C9 as claimed: pixelcoord_to_latlon_secure returns normally for every zoom
\* and pixel: no assertion fails, no nudge carries the recovered pixel past the
\* target, and neither loop is still nudging after MaxNudges nudges.
SecureReturnsNormally ==
    /\ ps_pc # "AssertionError"
    /\ ps_pc # "call" => (ps_y2 <= ps_y /\ ps_x2 <= ps_x)
    /\ ps_nlat < MaxNudges
    /\ ps_nlon < MaxNudges

\* the rows and the columns of the tiles planned
PlannedRows == {ci_plan.tiles[k][1] : k \in 1..Len(ci_plan.tiles)}
PlannedCols == {ci_plan.tiles[k][2] : k \in 1..Len(ci_plan.tiles)}
\* pixel coordinate a lies in the footprint [t * step, (t + 1) * step) of index t
InFootprint(a, t) == t * step <= a /\ a < (t + 1) * step

\* C4: the tile list is the rectangle of tile indices between the corner tiles,
\* row-major, width * height long; every requested pixel lies in the footprint
\* of a listed tile, and every row and column of the rectangle holds a
\* requested pixel (none can be removed).
TilePlanIsMinimalCover ==
    ci_pc = "fetch" =>
        LET b == ci_box
            p == ci_plan
            ty1 == b.y1 \div step
            tx1 == b.x1 \div step
            ty2 == b.y2 \div step
            tx2 == b.x2 \div step
        IN  /\ p.width = tx2 - tx1 + 1
            /\ p.height = ty2 - ty1 + 1
            /\ Len(p.tiles) = p.width * p.height
            /\ \A k \in 1..Len(p.tiles) :
                  p.tiles[k] = <<ty1 + ((k - 1) \div p.width), tx1 + ((k - 1) % p.width)>>
            /\ {p.tiles[k] : k \in 1..Len(p.tiles)} = PlannedRows \X PlannedCols
            /\ \A y \in b.y1..b.y2 : \E j \in PlannedRows : InFootprint(y, j)
            /\ \A x \in b.x1..b.x2 : \E i \in PlannedCols : InFootprint(x, i)
            /\ \A j \in PlannedRows : \E y \in b.y1..b.y2 : InFootprint(y, j)
            /\ \A i \in PlannedCols : \E x \in b.x1..b.x2 : InFootprint(x, i)

\* C4 witness: a plan of several rows and columns for a box off the tile edges
TilePlanOfSeveralTiles ==
    /\ ci_pc = "fetch"
    /\ ci_plan.width >= 2
    /\ ci_plan.height >= 2
    /\ ci_box.y1 % step # 0
    /\ ci_box.x2 % step # 0

\* every entry of the coordinate map has been assigned
MapFullyAssigned ==
    \/ ci_pixelcoordinates.h * ci_pixelcoordinates.w = 0
    \/ /\ ci_pixelcoordinates.filled_h >= ci_pixelcoordinates.h
       /\ ci_pixelcoordinates.filled_w >= ci_pixelcoordinates.w

\* C5 as claimed: whenever construct_image returns, in cropped and in full-tiles
\* mode, the coordinate map has the shape of the raster returned and every
\* entry (y, x) of it has been assigned pixelcoord_to_latlon_secure(scale*y1 + y,
\* scale*x1 + x, zoom') with zoom' = zoom + 1 for scale 2 and zoom otherwise.
CoordinateMapComplete ==
    ci_pc = "done" =>
        /\ ci_pixelcoordinates.h = ci_superimage.h
        /\ ci_pixelcoordinates.w = ci_superimage.w
        /\ ci_pixelcoordinates.origin =
              <<ci_in.scale * ci_box.y1, ci_in.scale * ci_box.x1>>
        /\ ci_pixelcoordinates.zoom =
              IF ci_in.scale = 2 THEN ci_in.zoom + 1 ELSE ci_in.zoom
        /\ MapFullyAssigned

\* both axes are multiples of the footprint of one tile, scale * step
MultipleOfFootprint(image, scale) ==
    /\ image.h % (scale * step) = 0
    /\ image.w % (scale * step) = 0

\* C7 as claimed: the shape check accepts a composite exactly when both axes
\* are multiples of the tile footprint scale * (640 - 2*22), and it accepts
\* every composite the planner and the cropper produce.
ShapeCheckIsFootprintCheck ==
    /\ ci_pc = "ShapeAssertionError" => ~ MultipleOfFootprint(ci_superimage, ci_in.scale)
    /\ ci_pc \in {"fill", "done"} => MultipleOfFootprint(ci_superimage, ci_in.scale)
    /\ ci_pc # "ShapeAssertionError"

\* the world pixel row (column) shown by row R (column C) of the stitched buffer,
\* read off the tile raster that was copied there
StitchedRowWorld(R) ==
    LET n == CHOOSE n \in 1..Len(ci_placed) :
                ci_placed[n].r0 <= R /\ R < ci_placed[n].r1
    IN  (ci_images[ci_placed[n].img].y0s + (R - ci_placed[n].r0)) \div ci_in.scale
StitchedColWorld(C) ==
    LET n == CHOOSE n \in 1..Len(ci_placed) :
                ci_placed[n].c0 <= C /\ C < ci_placed[n].c1
    IN  (ci_images[ci_placed[n].img].x0s + (C - ci_placed[n].c0)) \div ci_in.scale

RowBands == {<<ci_placed[n].r0, ci_placed[n].r1>> : n \in 1..Len(ci_placed)}
ColBands == {<<ci_placed[n].c0, ci_placed[n].c1>> : n \in 1..Len(ci_placed)}

\* C10: the raster of tile index t, centred on pixel int((t + 0.5) * step) and
\* cut by the margin, covers the pixels [t * step, (t + 1) * step) on each axis;
\* the raster at list position r * width + c is copied to rows
\* [r * size, (r + 1) * size), columns [c * size, (c + 1) * size), size = scale *
\* step; every cell of the composite is written exactly once, and cell
\* (row, col) shows world pixel (t1.row * step + row div scale,
\* t1.col * step + col div scale).
StitchIsSeamless ==
    (ci_pc = "stitch" /\ Len(ci_placed) = ci_plan.height * ci_plan.width) =>
        LET sc == ci_in.scale
            p == ci_plan
            size == sc * step
        IN  /\ \A k \in 1..Len(p.tiles) :
                  /\ p.pixelcoords[k] = <<p.tiles[k][1] * step + (step \div 2),
                                          p.tiles[k][2] * step + (step \div 2)>>
                  /\ ci_images[k] = [h |-> size, w |-> size,
                                     y0s |-> sc * p.tiles[k][1] * step,
                                     x0s |-> sc * p.tiles[k][2] * step]
            /\ \A r \in 0..(p.height - 1), c \in 0..(p.width - 1) :
                  ci_placed[r * p.width + c + 1] =
                      [r0 |-> r * size, r1 |-> (r + 1) * size,
                       c0 |-> c * size, c1 |-> (c + 1) * size,
                       img |-> r * p.width + c + 1]
            \* exactly once: the rectangles written are the products of the row
            \* bands and the column bands, one each, and every row (column) of
            \* the composite lies in exactly one row (column) band
            /\ Cardinality(RowBands) * Cardinality(ColBands) = Len(ci_placed)
            /\ \A n, m \in 1..Len(ci_placed) :
                  (ci_placed[n].r0 = ci_placed[m].r0 /\ ci_placed[n].c0 = ci_placed[m].c0)
                      => n = m
            /\ \A R \in 0..(ci_superimage.h - 1) :
                  Cardinality({bd \in RowBands : bd[1] <= R /\ R < bd[2]}) = 1
            /\ \A C \in 0..(ci_superimage.w - 1) :
                  Cardinality({bd \in ColBands : bd[1] <= C /\ C < bd[2]}) = 1
            /\ \A R \in 0..(ci_superimage.h - 1) :
                  StitchedRowWorld(R) = p.t1[1] * step + (R \div sc)
            /\ \A C \in 0..(ci_superimage.w - 1) :
                  StitchedColWorld(C) = p.t1[2] * step + (C \div sc)

\* C10 witness: a grid of several rows and columns stitched at scale 2
StitchedSeveralTiles ==
    /\ ci_pc = "stitch"
    /\ Len(ci_placed) = ci_plan.height * ci_plan.width
    /\ ci_plan.height >= 2
    /\ ci_plan.width >= 2
    /\ ci_in.scale = 2

\* C6 as claimed: with latlon_coordinates given and pixel_coordinates absent,
\* get_image takes north/south as the max/min of the two 'lat' and west/east as
\* the min/max of the two 'lon' of latlon_coordinates and goes on to
\* construct_image with them; with neither given it raises and never calls
\* construct_image.
GetImageUsesLatLonArgument ==
    (gi_pc # "call" /\ gi_args.zoom # None /\ gi_args.scale # None
        /\ gi_args.pixel_coordinates = None) =>
        IF gi_args.latlon_coordinates # None
        THEN LET lls == gi_args.latlon_coordinates[1]
             IN  /\ gi_pc \in {"read_api_key", "construct_image", "OSError"}
                 /\ gi_box = <<[north |-> Max(lls[1].lat, lls[2].lat),
                                west |-> Min(lls[1].lon, lls[2].lon),
                                south |-> Min(lls[1].lat, lls[2].lat),
                                east |-> Max(lls[1].lon, lls[2].lon)]>>
        ELSE gi_pc = "Exception" /\ gi_call = None

=============================================================================
